---- MODULE Spec2Model ----
(***************************************************************************)
(* Model of dfrobot_rgb_panel.Panel: the driver of a 16x8 RGB LED panel    *)
(* on an I2C bus.  The program's state is the 17-byte command buffer and   *)
(* the auto-write flag; every public method is one action.  Beside the     *)
(* program's state the model records the most recent call (its name, its   *)
(* arguments, the exception it raised), the frames that call put on the    *)
(* bus, and what happened to the lock of the I2C device during it.         *)
(***************************************************************************)
EXTENDS Integers, Sequences, FiniteSets

VARIABLES
    _buffer,      \* self._buffer: 0..16 -> 0..255
    _auto_write,  \* self._auto_write
    written,      \* frames written to the I2C device during the last call
    bus,          \* the I2C device: whether its lock is held, and how often the
                  \* last call acquired it and had a write refused
    last          \* the last call: method, arguments, exception raised, and
                  \* whether it was a clear() that directly followed a clear()

vars == <<_buffer, _auto_write, written, bus, last>>

----------------------------------------------------------------------------
(* Class constants of Panel. *)

write_reg == 2
Left == 0
Right == 2
RED == 1
WHITE == 7
SIZE == 50
_buffer_size == 17

(* Python's None, and a value that is not None, as an argument. *)
None == <<>>
Some(v) == <<v>>

(* self._buffer of an instance whose __init__ returned at line 68: the     *)
(* attribute does not exist, and neither do i2c_device and _buffer_size.   *)
Absent == <<>>

(* Bounds of the inputs the model draws. *)
MaxShortText == 1
MaxPicIndex == 1

----------------------------------------------------------------------------
(* Python's integer operators on the values the driver uses.  An element   *)
(* of a bytearray is eight bits wide, and every & and | of the driver has  *)
(* a buffer byte or a constant below 256 as an operand, so the low eight   *)
(* bits of the two's-complement form of each operand decide the result.    *)

ByteBits == 8
ByteRange == 256

RECURSIVE AndBits(_, _, _)
AndBits(a, b, n) ==
    IF n = 0 THEN 0
    ELSE (IF a % 2 = 1 /\ b % 2 = 1 THEN 1 ELSE 0)
         + 2 * AndBits(a \div 2, b \div 2, n - 1)

RECURSIVE OrBits(_, _, _)
OrBits(a, b, n) ==
    IF n = 0 THEN 0
    ELSE (IF a % 2 = 1 \/ b % 2 = 1 THEN 1 ELSE 0)
         + 2 * OrBits(a \div 2, b \div 2, n - 1)

RECURSIVE LShift(_, _)
LShift(a, n) == IF n = 0 THEN a ELSE LShift(2 * a, n - 1)

\* & and | of every pair of bytes, computed once
AndTable ==
    [a \in 0 .. (ByteRange - 1) |->
        [b \in 0 .. (ByteRange - 1) |-> AndBits(a, b, ByteBits)]]
OrTable ==
    [a \in 0 .. (ByteRange - 1) |->
        [b \in 0 .. (ByteRange - 1) |-> OrBits(a, b, ByteBits)]]

\* a & b, for a in 0..255 and any integer b
BitAnd(a, b) == AndTable[a % ByteRange][b % ByteRange]
\* a | b, for a and b in 0..255
BitOr(a, b) == OrTable[a % ByteRange][b % ByteRange]
\* ~a
Invert(a) == (-a) - 1

\* 1 << k for the bits of a byte, computed once
BitValue == [k \in 0 .. (ByteBits - 1) |-> LShift(1, k)]

\* bit k of byte b
Bit(b, k) == (b \div BitValue[k]) % 2
\* bits 3-4 of the control byte
ModeField(b) == (b \div 8) % 4

----------------------------------------------------------------------------
(* ord() on the characters the model's texts are made of. *)

ord(ch) ==
    CASE ch = "A" -> 65
      [] ch = "B" -> 66
      [] ch = "C" -> 67
      [] ch = "h" -> 104
      [] ch = "i" -> 105

----------------------------------------------------------------------------
(* The run of one method: the buffer, the frames written so far, the       *)
(* exception that ended the run ("" while none has), whether the lock of   *)
(* the I2C device is held, and how many times the run acquired it and had  *)
(* a write refused.  A statement after an exception does not execute.      *)

Begin(buf) ==
    [buf |-> buf, out |-> <<>>, err |-> "",
     locked |-> bus.locked, acquired |-> 0, refused |-> 0]

\* self._buffer[i] = v: bytearray item assignment
Store(st, i, v) ==
    IF st.err # "" THEN st
    ELSE IF st.buf = Absent THEN [st EXCEPT !.err = "AttributeError"]
    ELSE IF i \notin DOMAIN st.buf THEN [st EXCEPT !.err = "IndexError"]
    ELSE IF v \notin 0 .. (ByteRange - 1) THEN [st EXCEPT !.err = "ValueError"]
    ELSE [st EXCEPT !.buf[i] = v]

\* self._buffer[offset: offset + self._buffer_size]
Slice(buf, offset) ==
    LET len == Cardinality(DOMAIN buf)
        stop == IF offset + _buffer_size <= len THEN offset + _buffer_size ELSE len
    IN  [k \in 1 .. (stop - offset) |-> buf[offset + k - 1]]

\* An unused argument slot of the record of the last call.
NoArgs ==
    [x |-> 0, y |-> 0, color |-> 0, text |-> <<>>, picIndex |-> 0,
     direction |-> None, value |-> None]

----------------------------------------------------------------------------
(* The methods of Panel.  buf is self._buffer and aw is self._auto_write   *)
(* when the method is called; bus_ok says whether the I2C device accepts   *)
(* the write (a write it does not accept raises OSError).                  *)

\* with i2c_dev: entered.  __enter__ takes the lock of the bus and waits
\* for it while another holder has it.
Enter(st) ==
    IF st.locked THEN [st EXCEPT !.err = "blocked"]
    ELSE [st EXCEPT !.locked = TRUE, !.acquired = @ + 1]

\* i2c_dev.write(buffer): the device takes the frame or refuses it
Write(st, frame, bus_ok) ==
    IF st.err # "" THEN st
    ELSE [st EXCEPT !.out = Append(@, frame),
                    !.refused = IF bus_ok THEN @ ELSE @ + 1,
                    !.err = IF bus_ok THEN "" ELSE "OSError"]

\* with i2c_dev: left, by the end of the block or by an exception of it.
\* __exit__ gives the lock back and lets the exception pass.
Exit(entered, st) ==
    IF entered.err # "" THEN entered ELSE [st EXCEPT !.locked = FALSE]

\* show() with the slice taken one segment too far (offset = (index + 1) * size)
show_nextSegment(st, bus_ok) ==
    IF st.err # "" THEN st
    ELSE IF st.buf = Absent THEN [st EXCEPT !.err = "AttributeError"]
    ELSE LET entered == Enter(st)
         IN  Exit(entered, Write(entered, Slice(st.buf, 1 * _buffer_size), bus_ok))

\* show() that takes and gives back the lock by hand, with no with-block:
\* a refused write leaves before the lock is given back
show_noRelease(st, bus_ok) ==
    IF st.err # "" THEN st
    ELSE IF st.buf = Absent THEN [st EXCEPT !.err = "AttributeError"]
    ELSE LET entered == Enter(st)
             wrote == Write(entered, Slice(st.buf, 0 * _buffer_size), bus_ok)
         IN  IF wrote.err # "" THEN wrote ELSE Exit(entered, wrote)

\* show() that sends the frame a second time when the device refuses it
show_retries(st, bus_ok) ==
    IF st.err # "" THEN st
    ELSE IF st.buf = Absent THEN [st EXCEPT !.err = "AttributeError"]
    ELSE LET entered == Enter(st)
             frame == Slice(st.buf, 0 * _buffer_size)
             first == Write(entered, frame, bus_ok)
             again == IF first.err = "OSError"
                      THEN Write([first EXCEPT !.err = ""], frame, bus_ok)
                      ELSE first
         IN  Exit(entered, again)

\* show(): one transaction on the only device of self.i2c_device
show(st, bus_ok) ==
    IF st.err # "" THEN st
    ELSE IF st.buf = Absent THEN [st EXCEPT !.err = "AttributeError"]
    ELSE LET entered == Enter(st)
         IN  Exit(entered, Write(entered, Slice(st.buf, 0 * _buffer_size), bus_ok))

\* if self._auto_write: self.show()
AutoShow(st, aw, bus_ok) == IF aw THEN show(st, bus_ok) ELSE st

sys_disable(buf, aw, bus_ok) ==
    LET s1 == Store(Begin(buf), 0, write_reg)
        s2 == Store(s1, 1, 0)
        s3 == Store(s2, 2, 0)
        s4 == Store(s3, 3, 0)
    IN  AutoShow(s4, aw, bus_ok)

\* sys_enable that writes a prefix of five bytes
sys_enable_fiveBytes(buf, aw, bus_ok) ==
    LET s1 == Store(Begin(buf), 0, write_reg)
        s2 == Store(s1, 1, 0)
        s3 == Store(s2, 2, 1)
        s4 == Store(s3, 3, 0)
        s5 == Store(s4, 4, 0)
    IN  AutoShow(s5, aw, bus_ok)

sys_enable(buf, aw, bus_ok) ==
    LET s1 == Store(Begin(buf), 0, write_reg)
        s2 == Store(s1, 1, 0)
        s3 == Store(s2, 2, 1)
        s4 == Store(s3, 3, 0)
    IN  AutoShow(s4, aw, bus_ok)

\* direction is not None and direction != Panel.Right and direction != Panel.Left
ScrollRejects(direction) ==
    direction # None /\ direction # Some(Right) /\ direction # Some(Left)

\* self._buffer[1] &= (~(0x01 << 2))
ScrollOffByte(b) == BitAnd(b, Invert(LShift(1, 2)))
\* scroll(Right) that sets the enable bit alone
ScrollRightByte_enableOnly(b) == BitOr(b, LShift(1, 2))

\* self._buffer[1] |= (0x01 << 2) | (0x01 << 1)
ScrollRightByte(b) == BitOr(b, BitOr(LShift(1, 2), LShift(1, 1)))
\* self._buffer[1] |= (0x01 << 2) & (~(0x01 << 1))
ScrollLeftByte(b) == BitOr(b, BitAnd(LShift(1, 2), Invert(LShift(1, 1))))

scroll(buf, aw, direction, bus_ok) ==
    LET s0 == Begin(buf) IN
    IF ScrollRejects(direction) THEN s0
    ELSE IF direction = None
         THEN AutoShow(Store(s0, 1, ScrollOffByte(buf[1])), aw, bus_ok)
    ELSE IF direction = Some(Right)
         THEN AutoShow(Store(s0, 1, ScrollRightByte(buf[1])), aw, bus_ok)
    ELSE IF direction = Some(Left)
         THEN AutoShow(Store(s0, 1, ScrollLeftByte(buf[1])), aw, bus_ok)
    ELSE s0

\* the class constant BITMAP_ENABLE = 0x10 << 3 used as the mode bits
DisplayControl_classConstant(b) == BitOr(BitAnd(b, 230), LShift(16, 3))

\* the bitmap mode OR-ed in without masking the old mode out
DisplayControl_noMask(b) == BitOr(b, LShift(2, 3))

\* (self._buffer[1] & (0xe6)) | (0x02 << 3)
DisplayControl(b) == BitOr(BitAnd(b, 230), LShift(2, 3))

display(buf, aw, picIndex, color, bus_ok) ==
    LET s1 == Store(Begin(buf), 0, write_reg)
        s2 == Store(s1, 1, DisplayControl(s1.buf[1]))
        s3 == Store(s2, 2, color)
        s4 == Store(s3, 4, picIndex)
    IN  AutoShow(s4, aw, bus_ok)

\* the length test off by one: a text of SIZE + 1 characters passes
PrintRejects_offByOne(length) == length > SIZE + 1

\* length > Panel.SIZE
PrintRejects(length) == length > SIZE

\* the mask 0xe0 in place of 0xe6: the scroll bits are cleared too
PrintControl_wideMask(b) == BitOr(BitAnd(b, 224), LShift(3, 3))

\* (self._buffer[1] & (0xe6)) | (0x03 << 3)
PrintControl(b) == BitOr(BitAnd(b, 230), LShift(3, 3))

\* for i in range(length): self._buffer[6 + i] = ord(text[i]), from i on
RECURSIVE CopyText(_, _, _)
CopyText(st, text, i) ==
    IF i >= Len(text) \/ st.err # "" THEN st
    ELSE CopyText(Store(st, 6 + i, ord(text[i + 1])), text, i + 1)

\* print that puts a 0 after the last character
print_terminated(buf, aw, text, color, bus_ok) ==
    LET length == Len(text) IN
    IF length > SIZE THEN Begin(buf)
    ELSE LET s1 == Store(Begin(buf), 0, write_reg)
             s2 == Store(s1, 1, BitOr(BitAnd(s1.buf[1], 230), LShift(3, 3)))
             s3 == Store(s2, 2, color)
             s4 == CopyText(s3, text, 0)
             s5 == Store(s4, 6 + length, 0)
         IN  AutoShow(s5, aw, bus_ok)

print(buf, aw, text, color, bus_ok) ==
    LET length == Len(text) IN
    IF PrintRejects(length) THEN Begin(buf)
    ELSE LET s1 == Store(Begin(buf), 0, write_reg)
             s2 == Store(s1, 1, PrintControl(s1.buf[1]))
             s3 == Store(s2, 2, color)
             s4 == CopyText(s3, text, 0)
         IN  AutoShow(s4, aw, bus_ok)

\* the pixel mode OR-ed in without masking the old mode out
PixelControl_noMask(b) == BitOr(b, LShift(1, 3))

\* (self._buffer[1] & (0xe6)) | (0x01 << 3)
PixelControl(b) == BitOr(BitAnd(b, 230), LShift(1, 3))

pixel(buf, aw, x, y, color, bus_ok) ==
    LET s1 == Store(Begin(buf), 0, write_reg)
        s2 == Store(s1, 1, PixelControl(s1.buf[1]))
        s3 == Store(s2, 2, color)
        s4 == Store(s3, 3, x)
        s5 == Store(s4, 4, y)
    IN  AutoShow(s5, aw, bus_ok)

\* fillScreen's control byte with the mode bits masked out and nothing OR-ed in
FillControl_maskOnly(b) == BitAnd(b, 231)

\* (self._buffer[1] & (0xe7)) | (0x01 << 3)
FillControl(b) == BitOr(BitAnd(b, 231), LShift(1, 3))

\* fillScreen that leaves byte 4 as it was
fillScreen_keepsY(buf, aw, color, bus_ok) ==
    LET s1 == Store(Begin(buf), 0, write_reg)
        s2 == Store(s1, 1, 1)
        s3 == Store(s2, 1, BitOr(BitAnd(s2.buf[1], 231), LShift(1, 3)))
        s4 == Store(s3, 2, color)
        s5 == Store(s4, 3, 0)
    IN  AutoShow(s5, aw, bus_ok)

fillScreen(buf, aw, color, bus_ok) ==
    LET s1 == Store(Begin(buf), 0, write_reg)
        s2 == Store(s1, 1, 1)
        s3 == Store(s2, 1, FillControl(s2.buf[1]))
        s4 == Store(s3, 2, color)
        s5 == Store(s4, 3, 0)
        s6 == Store(s5, 4, 0)
    IN  AutoShow(s6, aw, bus_ok)

\* clear that flips the clear bit of byte 1 instead of setting the marker
clear_flipsBit(buf, aw, bus_ok) ==
    LET s1 == Store(Begin(buf), 0, write_reg)
        s2 == Store(s1, 1, IF Bit(buf[1], 0) = 1 THEN buf[1] - 1 ELSE buf[1] + 1)
        s3 == Store(s2, 2, 0)
    IN  AutoShow(s3, aw, bus_ok)

\* clear that sets the clear bit and keeps the mode field
clear_keepsMode(buf, aw, bus_ok) ==
    LET s1 == Store(Begin(buf), 0, write_reg)
        s2 == Store(s1, 1, BitOr(BitAnd(buf[1], 24), 1))
        s3 == Store(s2, 2, 0)
    IN  AutoShow(s3, aw, bus_ok)

clear(buf, aw, bus_ok) ==
    LET s1 == Store(Begin(buf), 0, write_reg)
        s2 == Store(s1, 1, 1)
        s3 == Store(s2, 2, 0)
    IN  AutoShow(s3, aw, bus_ok)

----------------------------------------------------------------------------
(* The arguments the model calls the methods with. *)

Colors == {RED, WHITE}
XCoords == {3, 255}
YCoords == {5, 255}
PicIndexes == 0 .. MaxPicIndex
Directions == {None, Some(Left), Some(Right), Some(1)}

\* "ABCABC..." of length n, and "hihi..." of length n
LongText(n) == [i \in 1 .. n |-> <<"A", "B", "C">>[((i - 1) % 3) + 1]]
ShortText(n) == [i \in 1 .. n |-> <<"h", "i">>[((i - 1) % 2) + 1]]

\* Texts up to the last that fits the buffer (11), the first that does not
\* (12), the longest print accepts (SIZE) and the first it rejects.
Texts ==
    {ShortText(n) : n \in 0 .. MaxShortText}
    \cup {LongText(n) : n \in {_buffer_size - 6, _buffer_size - 5, SIZE, SIZE + 1}}

----------------------------------------------------------------------------
(* The state after Panel(i2c, auto_write), and one action per method. *)

\* The answers the I2C device can give to the writes of one call: none is
\* asked for when the call cannot reach show().
BusAnswers == IF _auto_write THEN BOOLEAN ELSE {TRUE}

Init ==
    /\ _buffer = [i \in 0 .. (_buffer_size * 1 - 1) |-> 0]
    /\ _auto_write \in BOOLEAN
    /\ written = <<>>
    /\ bus = [locked |-> FALSE, acquired |-> 0, refused |-> 0]
    /\ last = [op |-> "__init__", args |-> NoArgs, err |-> "", twice |-> FALSE]

\* Panel(None, auto_write): __init__ prints its usage line and returns.
InitNoBus ==
    /\ _buffer = Absent
    /\ _auto_write = FALSE
    /\ written = <<>>
    /\ bus = [locked |-> FALSE, acquired |-> 0, refused |-> 0]
    /\ last = [op |-> "__init__", args |-> NoArgs, err |-> "", twice |-> FALSE]

\* The method op, called with args, ran as st.
Return(op, args, st) ==
    /\ _buffer' = st.buf
    /\ written' = st.out
    /\ bus' = [locked |-> st.locked, acquired |-> st.acquired, refused |-> st.refused]
    /\ last' = [op |-> op, args |-> args, err |-> st.err,
                twice |-> op = "clear" /\ last.op = "clear"]
    /\ UNCHANGED _auto_write

SetAutoWrite ==
    \E v \in {None, Some(TRUE), Some(FALSE)} :
        /\ _auto_write' = IF v # None THEN v[1] ELSE _auto_write
        /\ written' = <<>>
        /\ bus' = [bus EXCEPT !.acquired = 0, !.refused = 0]
        /\ last' = [op |-> "auto_write", args |-> [NoArgs EXCEPT !.value = v],
                    err |-> IF v # None THEN "" ELSE "ValueError", twice |-> FALSE]
        /\ UNCHANGED _buffer

SysDisable ==
    \E bus_ok \in BusAnswers :
        Return("sys_disable", NoArgs, sys_disable(_buffer, _auto_write, bus_ok))

SysEnable ==
    \E bus_ok \in BusAnswers :
        Return("sys_enable", NoArgs, sys_enable(_buffer, _auto_write, bus_ok))

Scroll ==
    \E direction \in Directions, bus_ok \in BusAnswers :
        Return("scroll", [NoArgs EXCEPT !.direction = direction],
               scroll(_buffer, _auto_write, direction, bus_ok))

Display ==
    \E picIndex \in PicIndexes, color \in Colors, bus_ok \in BusAnswers :
        Return("display", [NoArgs EXCEPT !.picIndex = picIndex, !.color = color],
               display(_buffer, _auto_write, picIndex, color, bus_ok))

PrintText ==
    \E text \in Texts, color \in Colors, bus_ok \in BusAnswers :
        Return("print", [NoArgs EXCEPT !.text = text, !.color = color],
               print(_buffer, _auto_write, text, color, bus_ok))

Pixel ==
    \E x \in XCoords, y \in YCoords, color \in Colors, bus_ok \in BusAnswers :
        Return("pixel", [NoArgs EXCEPT !.x = x, !.y = y, !.color = color],
               pixel(_buffer, _auto_write, x, y, color, bus_ok))

FillScreen ==
    \E color \in Colors, bus_ok \in BusAnswers :
        Return("fillScreen", [NoArgs EXCEPT !.color = color],
               fillScreen(_buffer, _auto_write, color, bus_ok))

Clear ==
    \E bus_ok \in BusAnswers :
        Return("clear", NoArgs, clear(_buffer, _auto_write, bus_ok))

Show ==
    \E bus_ok \in BOOLEAN :
        Return("show", NoArgs, show(Begin(_buffer), bus_ok))

Next ==
    \/ SetAutoWrite
    \/ SysDisable
    \/ SysEnable
    \/ Scroll
    \/ Display
    \/ PrintText
    \/ Pixel
    \/ FillScreen
    \/ Clear
    \/ Show

Spec == Init /\ [][Next]_vars

\* The panel constructed with or without an I2C bus.
SpecAnyBus == (Init \/ InitNoBus) /\ [][Next]_vars

----------------------------------------------------------------------------
(* What the properties below say about a call. *)

\* the drawing methods
DrawOps == {"pixel", "print", "fillScreen", "clear", "display", "scroll"}

\* the call l was turned away by the method's check of its arguments
Rejected(l) ==
    \/ l.op = "print" /\ Len(l.args.text) > 50
    \/ l.op = "scroll" /\ l.args.direction \notin {None, Some(0), Some(2)}

\* every byte of the buffer from index lo on is what it was
SameFrom(lo) == \A i \in lo .. 16 : _buffer'[i] = _buffer[i]

\* every byte of the buffer but byte 1 is what it was
SameButControl == \A i \in (0 .. 16) \ {1} : _buffer'[i] = _buffer[i]

\* the 17 bytes of the buffer, as a frame
FrameOf(buf) == [k \in 1 .. 17 |-> buf[k - 1]]

----------------------------------------------------------------------------
\* C1: whatever the buffer held, after pixel(x, y, c) the mode field (bits
\* 3-4 of byte 1) is 1, byte 2 is c, byte 3 is x, byte 4 is y, and every
\* byte at index 5..16 is what it was before the call.
C1_PixelEncodes ==
    [][last'.op = "pixel" =>
          /\ ModeField(_buffer'[1]) = 1
          /\ _buffer'[2] = last'.args.color
          /\ _buffer'[3] = last'.args.x
          /\ _buffer'[4] = last'.args.y
          /\ SameFrom(5)]_vars

\* pixel(255, 255, WHITE) has run on a buffer that holds a printed text
C1_Witness ==
    /\ last.op = "pixel"
    /\ last.args.x = 255 /\ last.args.y = 255 /\ last.args.color = WHITE
    /\ _buffer[3] = 255 /\ _buffer[4] = 255 /\ _buffer[2] = WHITE
    /\ ModeField(_buffer[1]) = 1
    /\ _buffer[6] = 65 /\ _buffer[16] = 66

\* C2 (as claimed): print(text, color) with a text of 0..50 characters
\* raises nothing of its own, and afterwards bytes 6 .. 6+len(text)-1 are the
\* character codes of text in order.
C2_PrintUpTo50Succeeds ==
    (last.op = "print" /\ Len(last.args.text) <= 50) =>
        /\ last.err \in {"", "OSError"}
        /\ \A i \in 1 .. Len(last.args.text) :
              _buffer[6 + i - 1] = ord(last.args.text[i])

\* C3: a call that the argument check turns away (print of more than 50
\* characters, scroll of something that is not None, Left or Right) leaves
\* all 17 bytes as they were and writes nothing to the bus, with auto-write
\* on or off.
C3_RejectedCallChangesNothing ==
    [][Rejected(last') =>
          /\ _buffer' = _buffer
          /\ written' = <<>>
          /\ last'.err = ""]_vars

\* print of 51 characters was turned away with auto-write on and a buffer
\* that an earlier call had filled
C3_Witness ==
    /\ last.op = "print" /\ Len(last.args.text) = 51
    /\ _auto_write
    /\ written = <<>>
    /\ _buffer[0] = 2 /\ _buffer[6] # 0

\* C4 (as claimed): with auto-write on, every accepted call of a drawing
\* method puts exactly one frame on the bus, the buffer as the call left it;
\* with auto-write off no drawing call writes, and show() does.
C4_OneShowPerCall ==
    /\ (last.op \in DrawOps /\ ~Rejected(last) /\ _auto_write) =>
          (Len(written) = 1 /\ written[1] = FrameOf(_buffer))
    /\ (last.op \in DrawOps /\ ~_auto_write) => written = <<>>
    /\ last.op = "show" => Len(written) = 1

C6_ScrollRightAndOff ==
    [][/\ (last'.op = "scroll" /\ last'.args.direction = Some(Right)) =>
             /\ Bit(_buffer'[1], 2) = 1
             /\ Bit(_buffer'[1], 1) = 1
             /\ SameButControl
       /\ (last'.op = "scroll" /\ last'.args.direction = None) =>
             /\ Bit(_buffer'[1], 2) = 0
             /\ \A k \in (0 .. 7) \ {2} : Bit(_buffer'[1], k) = Bit(_buffer[1], k)
             /\ SameButControl]_vars

\* scroll(None) has run after a scroll to the right: the direction bit is
\* still set, the enable bit is not, and the mode field is kept
C6_Witness ==
    /\ last.op = "scroll" /\ last.args.direction = None
    /\ Bit(_buffer[1], 1) = 1 /\ Bit(_buffer[1], 2) = 0
    /\ ModeField(_buffer[1]) = 3

\* C7 (as claimed): after scroll(Panel.Left) bit 2 of byte 1 is set and
\* bit 1 is clear.
C7_ScrollLeftClearsDirection ==
    (last.op = "scroll" /\ last.args.direction = Some(Left)) =>
        (Bit(_buffer[1], 2) = 1 /\ Bit(_buffer[1], 1) = 0)

C9_FillZeroesCoordinates ==
    last.op = "fillScreen" =>
        (_buffer[3] = 0 /\ _buffer[4] = 0 /\ _buffer[2] = last.args.color)

\* fillScreen(RED) has run on a buffer that holds a printed text
C9_Witness ==
    /\ last.op = "fillScreen" /\ last.args.color = RED
    /\ _buffer[2] = RED /\ _buffer[3] = 0 /\ _buffer[4] = 0
    /\ _buffer[6] = 104

\* C10: a clear() that follows a clear() leaves every byte of the buffer as
\* the first left it.
C10_ClearIdempotent ==
    [][(last.op = "clear" /\ last'.op = "clear") => _buffer' = _buffer]_vars

\* clear() has run directly after a clear(), on a buffer with a pixel's
\* coordinates still in it
C10_Witness ==
    /\ last.op = "clear" /\ last.twice
    /\ _buffer[0] = 2 /\ _buffer[1] = 1 /\ _buffer[2] = 0
    /\ _buffer[3] = 3 /\ _buffer[4] = 5

----------------------------------------------------------------------------
\* C11 (as claimed): clear() leaves bits 3-4 of byte 1 and bytes 3 and 4
\* as they were.
C11_ClearKeepsModeAndCoordinates ==
    [][last'.op = "clear" =>
          /\ ModeField(_buffer'[1]) = ModeField(_buffer[1])
          /\ _buffer'[3] = _buffer[3]
          /\ _buffer'[4] = _buffer[4]]_vars

\* C11 (amended): clear() leaves bytes 3 and 4 (and every byte above them)
\* as they were, but not the mode field: byte 1 becomes 0x01, so bits 3-4
\* are 0 after clear() whatever they were.
C11_ClearResetsModeKeepsCoordinates ==
    [][last'.op = "clear" =>
          /\ _buffer'[1] = 1
          /\ ModeField(_buffer'[1]) = 0
          /\ SameFrom(3)]_vars

\* clear() has run on a buffer that holds a printed text and a pixel's
\* coordinates
C11_Witness ==
    /\ last.op = "clear"
    /\ _buffer[1] = 1
    /\ _buffer[3] = 255 /\ _buffer[4] = 255
    /\ _buffer[6] = 65

\* C12 (as claimed): sys_enable() and sys_disable() leave bytes 1, 2, 3 and
\* 4 as they were.
C12_SysKeepsControlRegion ==
    [][last'.op \in {"sys_enable", "sys_disable"} =>
          \A i \in 1 .. 4 : _buffer'[i] = _buffer[i]]_vars

\* C12 (amended): sys_enable() and sys_disable() overwrite bytes 0..3 with
\* 0x02, 0, 1 (enable) or 0 (disable), 0, and leave byte 4 and every byte
\* above it as they were.
C12_SysWritesPrefixOnly ==
    [][/\ last'.op = "sys_enable" =>
             /\ _buffer'[0] = 2 /\ _buffer'[1] = 0
             /\ _buffer'[2] = 1 /\ _buffer'[3] = 0
             /\ SameFrom(4)
       /\ last'.op = "sys_disable" =>
             /\ _buffer'[0] = 2 /\ _buffer'[1] = 0
             /\ _buffer'[2] = 0 /\ _buffer'[3] = 0
             /\ SameFrom(4)]_vars

\* sys_enable() has run on a buffer that holds a pixel's y and a text
C12_Witness ==
    /\ last.op = "sys_enable"
    /\ _buffer[1] = 0 /\ _buffer[2] = 1 /\ _buffer[3] = 0
    /\ _buffer[4] = 5 /\ _buffer[6] = 104

\* C13: whatever the buffer held, after display(i, c) the mode field is 2,
\* byte 2 is c, byte 4 is i, and byte 3 and bytes 5..16 are what they were.
C13_DisplayEncodes ==
    [][last'.op = "display" =>
          /\ ModeField(_buffer'[1]) = 2
          /\ _buffer'[2] = last'.args.color
          /\ _buffer'[4] = last'.args.picIndex
          /\ _buffer'[3] = _buffer[3]
          /\ SameFrom(5)]_vars

\* display(1, WHITE) has run on a buffer that holds a pixel's x and a text
C13_Witness ==
    /\ last.op = "display"
    /\ last.args.picIndex = 1 /\ last.args.color = WHITE
    /\ _buffer[4] = 1 /\ _buffer[2] = WHITE
    /\ ModeField(_buffer[1]) = 2
    /\ _buffer[3] = 255 /\ _buffer[6] = 65

\* C14 (as claimed): constructing a Panel without a bus, scroll with an
\* unknown direction and print of more than 50 characters each end in an
\* error the caller receives.
C14_InvalidInputRaises ==
    /\ (last.op = "__init__" /\ _buffer = Absent) => last.err # ""
    /\ Rejected(last) => last.err # ""

\* C15 (as claimed): every frame put on the bus is 17 bytes long and
\* starts with the write register 0x02.
C15_FramesStartWithWriteReg ==
    \A k \in 1 .. Len(written) :
        Len(written[k]) = 17 /\ written[k][1] = write_reg

\* C16: after an accepted pixel, display or print the mode field holds
\* that call's value (1, 2, 3) whatever it held before, and a rejected call
\* after it leaves the field alone.
C16_NoStaleModeBits ==
    [][/\ last'.op = "pixel" => ModeField(_buffer'[1]) = 1
       /\ last'.op = "display" => ModeField(_buffer'[1]) = 2
       /\ (last'.op = "print" /\ ~Rejected(last')) => ModeField(_buffer'[1]) = 3
       /\ Rejected(last') => ModeField(_buffer'[1]) = ModeField(_buffer[1])]_vars

\* display has run after a print and a pixel, and the field reads 2
C16_Witness ==
    /\ last.op = "display"
    /\ ModeField(_buffer[1]) = 2
    /\ _buffer[6] = 65 /\ _buffer[3] = 3

\* C17: after show(), and after any call that shows by auto-write, the
\* lock of the device is not held, whether the write was taken or refused;
\* the call took the lock once for the one frame it wrote.
C17_LockReleased ==
    /\ ~bus.locked
    /\ bus.acquired = Len(written)
    /\ bus.acquired <= 1
    /\ last.op = "show" => bus.acquired = 1

\* show() has ended in the device's refusal, and the lock is free
C17_Witness ==
    /\ last.op = "show" /\ last.err = "OSError"
    /\ bus.acquired = 1 /\ bus.refused = 1
    /\ ~bus.locked

\* C18: a call whose write the device refuses writes that one frame and no
\* other, and ends in the device's OSError, for show() and for a drawing
\* call that shows by auto-write.
C18_RefusalPropagatesOnce ==
    /\ Len(written) <= 1
    /\ bus.refused <= 1
    /\ bus.refused = 1 => (last.err = "OSError" /\ Len(written) = 1)

\* pixel with auto-write on has ended in the device's refusal
C18_Witness ==
    /\ last.op = "pixel" /\ _auto_write
    /\ bus.refused = 1
    /\ last.err = "OSError"
    /\ Len(written) = 1

\* C19: pixel, display and print leave bits 1, 2, 5, 6 and 7 of byte 1 as
\* they were, and an accepted one leaves bit 0 clear.
C19_ModeCallsKeepScrollBits ==
    [][last'.op \in {"pixel", "display", "print"} =>
          /\ \A k \in {1, 2, 5, 6, 7} : Bit(_buffer'[1], k) = Bit(_buffer[1], k)
          /\ ~Rejected(last') => Bit(_buffer'[1], 0) = 0]_vars

\* print has run after a scroll to the right, and both scroll bits are set
C19_Witness ==
    /\ last.op = "print" /\ ~Rejected(last)
    /\ Bit(_buffer[1], 2) = 1 /\ Bit(_buffer[1], 1) = 1
    /\ ModeField(_buffer[1]) = 3

\* C20: an accepted print(text, c) leaves bytes 3, 4, 5 and every payload
\* byte at index 6+len(text) or above as they were, and stores 0x02, c and
\* the character codes below them.
C20_PrintKeepsTail ==
    [][(last'.op = "print" /\ ~Rejected(last')) =>
          /\ \A i \in 3 .. 16 :
                (i <= 5 \/ i >= 6 + Len(last'.args.text)) => _buffer'[i] = _buffer[i]
          /\ \A i \in 6 .. 16 :
                i < 6 + Len(last'.args.text) =>
                    _buffer'[i] = ord(last'.args.text[i - 5])
          /\ _buffer'[0] = 2
          /\ _buffer'[2] = last'.args.color]_vars

\* print("h") has run after a print of eleven characters: the tail of the
\* longer text is still there
C20_Witness ==
    /\ last.op = "print" /\ last.args.text = <<"h">>
    /\ _buffer[6] = 104
    /\ _buffer[7] = 66 /\ _buffer[16] = 66

====
